---- MODULE Spec2Model ----
(***************************************************************************)
(* A model of transcribe.py: the job registry (AudioTranscriber.jobs),     *)
(* the per-job pipeline (_process_job and its stages) and the worker pool  *)
(* of process_jobs.  Strings are TLA+ strings, handled as the Python code  *)
(* handles them (prefix tests, suffixes, lower-casing, strip).  The        *)
(* external collaborators (yt-dlp, ffmpeg, Whisper, the file system) are   *)
(* nondeterministic: each call either returns or raises.                   *)
(***************************************************************************)
EXTENDS Integers, Sequences, FiniteSets, TLC

VARIABLES
    jobs,         \* self.jobs: the dict, in insertion order, as a sequence of TranscriptionJob
    pc,           \* per job: where the worker running _process_job(job) stands
    exc,          \* per job: an exception escaped _process_job and is held by its future
    files,        \* the paths for which os.path.exists / os.path.isfile hold
    model,        \* self.model: 0 is None, k > 0 the k-th loaded instance
    loads,        \* number of completed model loads
    calls,        \* the collaborator invocations made so far: <<job index, collaborator>>
    mainpc,       \* the calling thread: "idle", or "waiting" inside process_jobs
    batch,        \* pending_jobs / future_to_job of the running process_jobs call
    cur,          \* the job whose future the as_completed loop is handling (0: none)
    ret,          \* what the caller's last add_job or process_jobs returned or raised
    max_workers,  \* self.max_workers
    auto_cleanup, \* self.auto_cleanup
    listed,       \* the caller holds the object get_all_jobs returned
    second,       \* the work items of a process_jobs call made by a second thread
    export        \* the export call the caller has just made, and what it wrote and returned

vars == <<jobs, pc, exc, files, model, loads, calls, mainpc, batch, cur, ret,
          max_workers, auto_cleanup, listed, second, export>>

-----------------------------------------------------------------------------
(* Bounds of the model *)

MaxJobs == 2
MaxTime == 0
MaxWorkers == 2

-----------------------------------------------------------------------------
(* Optional[...] values *)

None == <<>>
Some(x) == <<x>>
IsSet(o) == o # None
Get(o) == o[1]
\* Python truthiness of an Optional[str]
Truthy(o) == o # None /\ o # Some("")

-----------------------------------------------------------------------------
(* String helpers, as the Python library computes them *)

Char(s, i) == SubSeq(s, i, i)

StartsWith(s, p) == Len(s) >= Len(p) /\ SubSeq(s, 1, Len(p)) = p

LastIndexOf(s, c) ==
    LET I == {i \in 1..Len(s) : Char(s, i) = c}
    IN IF I = {} THEN 0 ELSE CHOOSE i \in I : \A k \in I : k <= i

UpperChars == <<"A", "B", "C", "D", "E", "F", "G", "H", "I", "J", "K", "L", "M",
                "N", "O", "P", "Q", "R", "S", "T", "U", "V", "W", "X", "Y", "Z">>
LowerChars == <<"a", "b", "c", "d", "e", "f", "g", "h", "i", "j", "k", "l", "m",
                "n", "o", "p", "q", "r", "s", "t", "u", "v", "w", "x", "y", "z">>
Digits == {"0", "1", "2", "3", "4", "5", "6", "7", "8", "9"}

LowerChar(c) ==
    IF \E k \in 1..26 : UpperChars[k] = c
    THEN LowerChars[CHOOSE k \in 1..26 : UpperChars[k] = c]
    ELSE c

RECURSIVE Lower(_)
Lower(s) == IF s = "" THEN "" ELSE LowerChar(Char(s, 1)) \o Lower(SubSeq(s, 2, Len(s)))

\* str.isalnum() on one character of the alphabet used here
IsAlnum(c) ==
    \/ c \in Digits
    \/ \E k \in 1..26 : UpperChars[k] = c \/ LowerChars[k] = c

WhiteSpace == {" ", "\n", "\t"}

RECURSIVE LStrip(_)
LStrip(s) ==
    IF s # "" /\ Char(s, 1) \in WhiteSpace THEN LStrip(SubSeq(s, 2, Len(s))) ELSE s

RECURSIVE RStrip(_)
RStrip(s) ==
    IF s # "" /\ Char(s, Len(s)) \in WhiteSpace THEN RStrip(SubSeq(s, 1, Len(s) - 1)) ELSE s

Strip(s) == RStrip(LStrip(s))

\* Path(p).suffix: the last dot-separated part of the final path component
Suffix(p) ==
    LET slash == LastIndexOf(p, "/")
        name  == SubSeq(p, slash + 1, Len(p))
        dot   == LastIndexOf(name, ".")
    IN IF dot <= 1 \/ dot = Len(name) THEN "" ELSE SubSeq(name, dot, Len(name))

\* "".join(c for c in job_id if c.isalnum() or c in ('-', '_'))
RECURSIVE SafeId(_)
SafeId(s) ==
    IF s = "" THEN ""
    ELSE (IF IsAlnum(Char(s, 1)) \/ Char(s, 1) \in {"-", "_"} THEN Char(s, 1) ELSE "")
         \o SafeId(SubSeq(s, 2, Len(s)))

-----------------------------------------------------------------------------
(* The inputs the caller and the collaborators draw from *)

temp_dir == "/tmp"

Sources == {"a.mp3", "v.MP4", "n.txt", "https://u", "ftp://x", "/no/such/file.mp3"}
InitialFiles == {"a.mp3", "v.MP4", "n.txt"}
Formats == {None, Some("140")}
Languages == {Some("en")}
Times == 0..MaxTime
\* result['text'] as Whisper returns it
RawTexts == {" hi", " "}
\* the extension of the file yt-dlp leaves behind
DownloadedExts == {".mp3", ".opus"}

audio_extensions == {".mp3", ".wav", ".m4a", ".aac", ".ogg", ".flac", ".wma"}
video_extensions == {".mp4", ".mkv", ".avi", ".mov", ".webm", ".3gp", ".flv"}
possible_extensions == <<".mp3", ".m4a", ".wav", ".webm", ".ogg">>

-----------------------------------------------------------------------------
(* TranscriptionJob and the registry *)

TranscriptionJob(source, job_id, is_local_file, audio_format, language) ==
    [source |-> source, job_id |-> job_id, is_local_file |-> is_local_file,
     audio_format |-> audio_format, language |-> language,
     status |-> "pending", audio_file |-> None, transcript |-> None, error |-> None]

JobIdx == 1..Len(jobs)

\* a mutant of _is_url: any scheme is taken for a URL
IsUrlAnyScheme(source) == \E k \in 1..Len(source) : StartsWith(SubSeq(source, k, Len(source)), "://")

_is_url(source) == StartsWith(source, "http://") \/ StartsWith(source, "https://")

_is_local_file(source) == source \in files

\* a mutant of NewJobId: the id is the timestamp alone
NewJobIdTimeOnly(t) == "job_" \o ToString(t)

\* f"job_{int(time.time() * 1000)}_{len(self.jobs)}"
NewJobId(t) == "job_" \o ToString(t) \o "_" \o ToString(Len(jobs))

\* a mutant of FormatFor: the hint is kept whatever the source is
FormatForKept(is_local_file, audio_format) == audio_format

\* audio_format if not is_local_file else None
FormatFor(is_local_file, audio_format) == IF ~is_local_file THEN audio_format ELSE None

\* self.jobs[job_id] = job on an insertion-ordered dict
DictPut(d, job) ==
    IF \E i \in 1..Len(d) : d[i].job_id = job.job_id
    THEN [i \in 1..Len(d) |-> IF d[i].job_id = job.job_id THEN job ELSE d[i]]
    ELSE Append(d, job)

\* the arguments of the caller's last call, kept beside its result
Args(source, audio_format, language) ==
    [source |-> Some(source), audio_format |-> audio_format, language |-> language]
NoArgs == [source |-> None, audio_format |-> None, language |-> None]

\* no export call has been made, or the caller has gone on
NoExport ==
    [op |-> "none", job_id |-> "", filename |-> "", opened |-> FALSE, data |-> <<>>,
     value |-> FALSE]

Init ==
    /\ jobs = <<>>
    /\ pc = <<>>
    /\ exc = <<>>
    /\ files = InitialFiles
    /\ model = 0
    /\ loads = 0
    /\ calls = {}
    /\ mainpc = "idle"
    /\ batch = {}
    /\ cur = 0
    /\ ret = [op |-> "init", arg |-> NoArgs, value |-> None]
    /\ max_workers \in 1..MaxWorkers
    /\ auto_cleanup \in BOOLEAN
    /\ listed = FALSE
    /\ second = [queued |-> {}, running |-> {}]
    /\ export = NoExport

add_job(source, audio_format, language, t) ==
    LET job_id == NewJobId(t)
        is_local_file == _is_local_file(source)
    IN /\ mainpc = "idle"
       /\ IF ~is_local_file /\ ~_is_url(source)
          THEN /\ ret' = [op |-> "add_job", arg |-> Args(source, audio_format, language),
                        value |-> Some("ValueError")]
               /\ UNCHANGED <<jobs, pc, exc>>
          ELSE /\ Len(jobs) < MaxJobs
               /\ jobs' = DictPut(jobs, TranscriptionJob(source, job_id, is_local_file,
                                     FormatFor(is_local_file, audio_format),
                                     language))
               /\ pc' = [i \in 1..Len(jobs') |->
                            IF i <= Len(jobs) /\ jobs'[i] = jobs[i] THEN pc[i] ELSE "new"]
               /\ exc' = [i \in 1..Len(jobs') |->
                            IF i <= Len(jobs) /\ jobs'[i] = jobs[i] THEN exc[i] ELSE FALSE]
               /\ ret' = [op |-> "add_job", arg |-> Args(source, audio_format, language),
                        value |-> Some(job_id)]
       /\ UNCHANGED <<files, model, loads, calls, mainpc, batch, cur, max_workers, auto_cleanup, listed, second, export>>

AddJob == \E s \in Sources, f \in Formats, l \in Languages, t \in Times : add_job(s, f, l, t)

-----------------------------------------------------------------------------
(* process_jobs: selection and dispatch *)

\* a mutant of PendingJobs: every job that has not completed is selected
PendingJobsNotCompleted == {i \in JobIdx : jobs[i].status # "completed"}

\* [job for job in self.jobs.values() if job.status == "pending"]
PendingJobs == {i \in JobIdx : jobs[i].status = "pending"}

\* positions of a worker inside _process_job, from its first statement to the end of cleanup
MidPipeline == {"start", "dl_run", "prep_exc", "dl_exc", "tr_exc", "prep_err", "dl_err",
                "tr_err", "tr_begin", "tr_load", "tr_loading", "tr_run", "tr_done", "cleanup"}

Running == {i \in JobIdx : pc[i] \in MidPipeline}

Queued == {i \in JobIdx : pc[i] = "queued"}

\* a mutant of WorkerFree: a thread per work item
WorkerFreeUnbounded(i) == \A k \in Queued : i <= k

\* a mutant of WorkerFree: the pool keeps one of its threads back
WorkerFreeOneLess(i) ==
    /\ Cardinality(Running) < max_workers - 1
    /\ \A k \in Queued : i <= k

\* ThreadPoolExecutor(max_workers=self.max_workers): a work item leaves the FIFO queue
\* only when one of the at most max_workers threads is free
WorkerFree(i) ==
    /\ Cardinality(Running) < max_workers
    /\ \A k \in Queued : i <= k

process_jobs ==
    /\ mainpc = "idle"
    /\ IF PendingJobs = {}
       THEN UNCHANGED <<pc, mainpc, batch>>
       ELSE /\ batch' = PendingJobs
            /\ pc' = [i \in JobIdx |-> IF i \in PendingJobs THEN "queued" ELSE pc[i]]
            /\ mainpc' = "waiting"
    /\ ret' = [op |-> "process_jobs", arg |-> NoArgs, value |-> None]
    /\ UNCHANGED <<jobs, exc, files, model, loads, calls, cur, max_workers, auto_cleanup, listed, second, export>>

\* a pool thread takes the work item and enters _process_job
StartJob(i) ==
    /\ pc[i] = "queued"
    /\ WorkerFree(i)
    /\ pc' = [pc EXCEPT ![i] = "start"]
    /\ UNCHANGED <<jobs, exc, files, model, loads, calls, mainpc, batch, cur, ret,
                   max_workers, auto_cleanup, listed, second, export>>

-----------------------------------------------------------------------------
(* Stage 1: acquire audio *)

ExtractedPath(job) == temp_dir \o "/" \o "extracted_audio_" \o SafeId(job.job_id) \o ".mp3"

DownloadBase(job) == temp_dir \o "/" \o "audio_" \o SafeId(job.job_id)

\* the body of the try block of _prepare_local_file; "raise" leads to its except clause
_prepare_local_file(i) ==
    LET job == jobs[i]
        file_ext == Lower(Suffix(job.source))
    IN /\ pc[i] = "start"
       /\ job.is_local_file
       /\ IF job.source \notin files
          THEN /\ pc' = [pc EXCEPT ![i] = "prep_exc"]
               /\ UNCHANGED <<jobs, files, calls>>
          ELSE IF file_ext \in audio_extensions
          THEN /\ jobs' = [jobs EXCEPT ![i].audio_file = Some(job.source)]
               /\ pc' = [pc EXCEPT ![i] = "tr_begin"]
               /\ UNCHANGED <<files, calls>>
          ELSE IF file_ext \in video_extensions
          THEN /\ calls' = calls \cup {<<i, "extract_audio">>}
               /\ \E outcome \in {"extracted", "failed", "raised"} :
                     CASE outcome = "extracted" ->
                            /\ files' = files \cup {ExtractedPath(job)}
                            /\ jobs' = [jobs EXCEPT ![i].audio_file = Some(ExtractedPath(job))]
                            /\ pc' = [pc EXCEPT ![i] = "tr_begin"]
                       [] outcome = "failed" ->
                            /\ jobs' = [jobs EXCEPT ![i].audio_file = Some(job.source)]
                            /\ pc' = [pc EXCEPT ![i] = "tr_begin"]
                            /\ UNCHANGED files
                       [] outcome = "raised" ->
                            /\ pc' = [pc EXCEPT ![i] = "prep_exc"]
                            /\ UNCHANGED <<jobs, files>>
          ELSE /\ jobs' = [jobs EXCEPT ![i].audio_file = Some(job.source)]
               /\ pc' = [pc EXCEPT ![i] = "tr_begin"]
               /\ UNCHANGED <<files, calls>>
       /\ UNCHANGED <<exc, model, loads, mainpc, batch, cur, ret, max_workers, auto_cleanup, listed, second, export>>

\* a mutant of DownloadBegin: the status string is misspelt
DownloadBeginMisspelt(i) ==
    /\ pc[i] = "start"
    /\ ~jobs[i].is_local_file
    /\ jobs' = [jobs EXCEPT ![i].status = "download"]
    /\ pc' = [pc EXCEPT ![i] = "dl_run"]
    /\ UNCHANGED <<exc, files, model, loads, calls, mainpc, batch, cur, ret,
                   max_workers, auto_cleanup, listed, second, export>>

\* job.status = "downloading"
DownloadBegin(i) ==
    /\ pc[i] = "start"
    /\ ~jobs[i].is_local_file
    /\ jobs' = [jobs EXCEPT ![i].status = "downloading"]
    /\ pc' = [pc EXCEPT ![i] = "dl_run"]
    /\ UNCHANGED <<exc, files, model, loads, calls, mainpc, batch, cur, ret,
                   max_workers, auto_cleanup, listed, second, export>>

\* the first of possible_extensions whose file exists in fs, 0 when there is none
FirstDownloaded(base, fs) ==
    LET K == {k \in 1..Len(possible_extensions) : (base \o possible_extensions[k]) \in fs}
    IN IF K = {} THEN 0 ELSE CHOOSE k \in K : \A m \in K : k <= m

\* ydl.download([job.source]) and the search for the file it wrote
DownloadRun(i) ==
    LET job == jobs[i]
        base == DownloadBase(job)
    IN /\ pc[i] = "dl_run"
       /\ calls' = calls \cup {<<i, "download">>}
       /\ \/ /\ pc' = [pc EXCEPT ![i] = "dl_exc"]
             /\ UNCHANGED <<jobs, files>>
          \/ \E ext \in DownloadedExts :
                /\ files' = files \cup {base \o ext}
                /\ IF FirstDownloaded(base, files') # 0
                   THEN /\ jobs' = [jobs EXCEPT ![i].audio_file =
                                       Some(base \o possible_extensions[FirstDownloaded(base, files')])]
                        /\ pc' = [pc EXCEPT ![i] = "tr_begin"]
                   ELSE /\ pc' = [pc EXCEPT ![i] = "dl_exc"]
                        /\ UNCHANGED jobs
       /\ UNCHANGED <<exc, model, loads, mainpc, batch, cur, ret, max_workers, auto_cleanup, listed, second, export>>

-----------------------------------------------------------------------------
(* The except clauses of the three stages *)

ErrorPrefix(p) ==
    CASE p = "prep_exc" -> "File preparation error"
      [] p = "dl_exc"   -> "Download error"
      [] p = "tr_exc"   -> "Transcription error"

AfterErrorWrite(p) ==
    CASE p = "prep_exc" -> "prep_err"
      [] p = "dl_exc"   -> "dl_err"
      [] p = "tr_exc"   -> "tr_err"

\* a mutant of ExceptWriteError: the except clause records no message
ExceptWriteErrorNothing(i) ==
    /\ pc[i] \in {"prep_exc", "dl_exc", "tr_exc"}
    /\ pc' = [pc EXCEPT ![i] = AfterErrorWrite(pc[i])]
    /\ UNCHANGED <<jobs, exc, files, model, loads, calls, mainpc, batch, cur, ret,
                   max_workers, auto_cleanup, listed, second, export>>

\* job.error = f"... error: {str(e)}"
ExceptWriteError(i) ==
    /\ pc[i] \in {"prep_exc", "dl_exc", "tr_exc"}
    /\ jobs' = [jobs EXCEPT ![i].error = Some(ErrorPrefix(pc[i]))]
    /\ pc' = [pc EXCEPT ![i] = AfterErrorWrite(pc[i])]
    /\ UNCHANGED <<exc, files, model, loads, calls, mainpc, batch, cur, ret,
                   max_workers, auto_cleanup, listed, second, export>>

\* a mutant of AfterStageFailure: _process_job ignores what the acquire stage returned
AfterStageFailureIgnored(p) == IF p \in {"prep_err", "dl_err"} THEN "tr_begin" ELSE "cleanup"

\* _process_job: "if not self._...(job): return", which leads to the finally block
AfterStageFailure(p) == "cleanup"

\* a mutant of ExceptWriteStatus: the failed job is put back for another attempt
ExceptWriteStatusRetry(i) ==
    /\ pc[i] \in {"prep_err", "dl_err", "tr_err"}
    /\ jobs' = [jobs EXCEPT ![i].status = "pending"]
    /\ pc' = [pc EXCEPT ![i] = AfterStageFailure(pc[i])]
    /\ UNCHANGED <<exc, files, model, loads, calls, mainpc, batch, cur, ret,
                   max_workers, auto_cleanup, listed, second, export>>

\* job.status = "failed"; return False
ExceptWriteStatus(i) ==
    /\ pc[i] \in {"prep_err", "dl_err", "tr_err"}
    /\ jobs' = [jobs EXCEPT ![i].status = "failed"]
    /\ pc' = [pc EXCEPT ![i] = AfterStageFailure(pc[i])]
    /\ UNCHANGED <<exc, files, model, loads, calls, mainpc, batch, cur, ret,
                   max_workers, auto_cleanup, listed, second, export>>

\* a mutant of ExceptFault: the except clause raises after it has recorded the message
ExceptFaultAfterWrite(i) ==
    /\ pc[i] \in {"prep_err", "dl_err", "tr_err"}
    /\ exc' = [exc EXCEPT ![i] = TRUE]
    /\ pc' = [pc EXCEPT ![i] = "cleanup"]
    /\ UNCHANGED <<jobs, files, model, loads, calls, mainpc, batch, cur, ret,
                   max_workers, auto_cleanup, listed, second, export>>

\* The except clause itself raises while it builds the message (str(e) of a foreign
\* exception): the exception leaves the stage with nothing recorded, the finally
\* block runs, and the future holds the exception.
ExceptFault(i) ==
    /\ pc[i] \in {"prep_exc", "dl_exc", "tr_exc"}
    /\ exc' = [exc EXCEPT ![i] = TRUE]
    /\ pc' = [pc EXCEPT ![i] = "cleanup"]
    /\ UNCHANGED <<jobs, files, model, loads, calls, mainpc, batch, cur, ret,
                   max_workers, auto_cleanup, listed, second, export>>

-----------------------------------------------------------------------------
(* Stage 2: transcribe *)

\* job.status = "transcribing"
TranscribeBegin(i) ==
    /\ pc[i] = "tr_begin"
    /\ jobs' = [jobs EXCEPT ![i].status = "transcribing"]
    /\ pc' = [pc EXCEPT ![i] = "tr_load"]
    /\ UNCHANGED <<exc, files, model, loads, calls, mainpc, batch, cur, ret,
                   max_workers, auto_cleanup, listed, second, export>>

\* _load_whisper_model: the test "self.model is None"
LoadCheck(i) ==
    /\ pc[i] = "tr_load"
    /\ pc' = [pc EXCEPT ![i] = IF model = 0 THEN "tr_loading" ELSE "tr_run"]
    /\ UNCHANGED <<jobs, exc, files, model, loads, calls, mainpc, batch, cur, ret,
                   max_workers, auto_cleanup, listed, second, export>>

\* _load_whisper_model: self.model = whisper.load_model(...), which may raise
LoadModel(i) ==
    /\ pc[i] = "tr_loading"
    /\ calls' = calls \cup {<<i, "load_model">>}
    /\ \/ /\ model' = loads + 1
          /\ loads' = loads + 1
          /\ pc' = [pc EXCEPT ![i] = "tr_run"]
       \/ /\ pc' = [pc EXCEPT ![i] = "tr_exc"]
          /\ UNCHANGED <<model, loads>>
    /\ UNCHANGED <<jobs, exc, files, mainpc, batch, cur, ret, max_workers, auto_cleanup, listed, second, export>>

\* a mutant of TranscribeRun: the status is written before the transcript is stored
TranscribeRunStatusFirst(i) ==
    /\ pc[i] = "tr_run"
    /\ calls' = calls \cup {<<i, "transcribe">>}
    /\ jobs' = [jobs EXCEPT ![i].status = "completed"]
    /\ pc' = [pc EXCEPT ![i] = "tr_done"]
    /\ UNCHANGED <<exc, files, model, loads, mainpc, batch, cur, ret, max_workers, auto_cleanup, listed, second, export>>

\* self.model.transcribe(job.audio_file, ...) and job.transcript = result['text'].strip()
TranscribeRun(i) ==
    /\ pc[i] = "tr_run"
    /\ calls' = calls \cup {<<i, "transcribe">>}
    /\ \/ \E raw \in RawTexts :
             /\ jobs' = [jobs EXCEPT ![i].transcript = Some(Strip(raw))]
             /\ pc' = [pc EXCEPT ![i] = "tr_done"]
       \/ /\ pc' = [pc EXCEPT ![i] = "tr_exc"]
          /\ UNCHANGED jobs
    /\ UNCHANGED <<exc, files, model, loads, mainpc, batch, cur, ret, max_workers, auto_cleanup, listed, second, export>>

\* job.status = "completed"; return True
TranscribeComplete(i) ==
    /\ pc[i] = "tr_done"
    /\ jobs' = [jobs EXCEPT ![i].status = "completed"]
    /\ pc' = [pc EXCEPT ![i] = "cleanup"]
    /\ UNCHANGED <<exc, files, model, loads, calls, mainpc, batch, cur, ret,
                   max_workers, auto_cleanup, listed, second, export>>

-----------------------------------------------------------------------------
(* Stage 3: cleanup, in the finally block *)

\* a mutant of CleanupRemoves: the test for the original local file is missing
CleanupRemovesAnyFile(job) ==
    /\ auto_cleanup
    /\ Truthy(job.audio_file)
    /\ Get(job.audio_file) \in files

\* a mutant of CleanupRemoves: the auto_cleanup switch is not consulted
CleanupRemovesAlways(job) ==
    /\ Truthy(job.audio_file)
    /\ ~(job.is_local_file /\ job.audio_file = Some(job.source))
    /\ Get(job.audio_file) \in files

\* whether _cleanup_audio_file reaches os.remove(job.audio_file)
CleanupRemoves(job) ==
    /\ auto_cleanup
    /\ Truthy(job.audio_file)
    /\ ~(job.is_local_file /\ job.audio_file = Some(job.source))
    /\ Get(job.audio_file) \in files

\* a mutant of _cleanup_audio_file: os.remove is called outside a try block
CleanupUnguarded(i) ==
    LET job == jobs[i]
    IN /\ pc[i] = "cleanup"
       /\ IF CleanupRemoves(job)
          THEN /\ calls' = calls \cup {<<i, "remove">>}
               /\ \/ files' = files \ {Get(job.audio_file)} /\ UNCHANGED exc
                  \/ UNCHANGED files /\ exc' = [exc EXCEPT ![i] = TRUE]
          ELSE UNCHANGED <<files, calls, exc>>
       /\ pc' = [pc EXCEPT ![i] = "finished"]
       /\ UNCHANGED <<jobs, model, loads, mainpc, batch, cur, ret,
                      max_workers, auto_cleanup, listed, second, export>>

_cleanup_audio_file(i) ==
    LET job == jobs[i]
    IN /\ pc[i] = "cleanup"
       /\ IF CleanupRemoves(job)
          THEN /\ calls' = calls \cup {<<i, "remove">>}
               /\ \/ files' = files \ {Get(job.audio_file)}
                  \/ UNCHANGED files       \* os.remove raised: logged, swallowed
          ELSE UNCHANGED <<files, calls>>
       /\ pc' = [pc EXCEPT ![i] = "finished"]
       /\ UNCHANGED <<jobs, exc, model, loads, mainpc, batch, cur, ret,
                      max_workers, auto_cleanup, listed, second, export>>

-----------------------------------------------------------------------------
(* process_jobs: the as_completed loop *)

\* as_completed yields a finished future; future.result() returns or raises
FutureResult(i) ==
    /\ mainpc = "waiting"
    /\ cur = 0
    /\ i \in batch
    /\ pc[i] = "finished"
    /\ IF exc[i]
       THEN /\ pc' = [pc EXCEPT ![i] = "h_error"]
            /\ cur' = i
       ELSE /\ pc' = [pc EXCEPT ![i] = "handled"]
            /\ UNCHANGED cur
    /\ UNCHANGED <<jobs, exc, files, model, loads, calls, mainpc, batch, ret,
                   max_workers, auto_cleanup, listed, second, export>>

\* a mutant of HandlerJob: the handler writes to the last job dispatched
HandlerJobLast(i) == CHOOSE k \in batch : \A m \in batch : m <= k

\* job = future_to_job[future]
HandlerJob(i) == i

\* job.error = f"Processing error: {str(e)}"
HandlerWriteError(i) ==
    /\ pc[i] = "h_error"
    /\ jobs' = [jobs EXCEPT ![HandlerJob(i)].error = Some("Processing error")]
    /\ pc' = [pc EXCEPT ![i] = "h_status"]
    /\ UNCHANGED <<exc, files, model, loads, calls, mainpc, batch, cur, ret,
                   max_workers, auto_cleanup, listed, second, export>>

\* job.status = "failed"
HandlerWriteStatus(i) ==
    /\ pc[i] = "h_status"
    /\ jobs' = [jobs EXCEPT ![HandlerJob(i)].status = "failed"]
    /\ pc' = [pc EXCEPT ![i] = "handled"]
    /\ cur' = 0
    /\ UNCHANGED <<exc, files, model, loads, calls, mainpc, batch, ret,
                   max_workers, auto_cleanup, listed, second, export>>

\* a mutant of AllHandled: the loop ends with the first future
AllHandledFirst == \E i \in batch : pc[i] = "handled"

\* as_completed is exhausted only when every future has finished
AllHandled == \A i \in batch : pc[i] = "handled"

\* the with block ends and process_jobs returns self.jobs
ProcessJobsReturn ==
    /\ mainpc = "waiting"
    /\ AllHandled
    /\ mainpc' = "idle"
    /\ batch' = {}
    /\ UNCHANGED <<jobs, pc, exc, files, model, loads, calls, cur, ret, max_workers, auto_cleanup, listed, second, export>>

-----------------------------------------------------------------------------
(* The environment: the file of a submitted job disappears before the job is run *)

ExternalRemove ==
    /\ mainpc = "idle"
    /\ \E i \in JobIdx :
          /\ pc[i] = "new"
          /\ jobs[i].source \in files
          /\ files' = files \ {jobs[i].source}
    /\ UNCHANGED <<jobs, pc, exc, model, loads, calls, mainpc, batch, cur, ret,
                   max_workers, auto_cleanup, listed, second, export>>

-----------------------------------------------------------------------------

Next ==
    \/ AddJob
    \/ process_jobs
    \/ ProcessJobsReturn
    \/ ExternalRemove
    \/ \E i \in JobIdx : StartJob(i)
    \/ \E i \in JobIdx : _prepare_local_file(i)
    \/ \E i \in JobIdx : DownloadBegin(i)
    \/ \E i \in JobIdx : DownloadRun(i)
    \/ \E i \in JobIdx : ExceptWriteError(i)
    \/ \E i \in JobIdx : ExceptWriteStatus(i)
    \/ \E i \in JobIdx : ExceptFault(i)
    \/ \E i \in JobIdx : TranscribeBegin(i)
    \/ \E i \in JobIdx : LoadCheck(i)
    \/ \E i \in JobIdx : LoadModel(i)
    \/ \E i \in JobIdx : TranscribeRun(i)
    \/ \E i \in JobIdx : TranscribeComplete(i)
    \/ \E i \in JobIdx : _cleanup_audio_file(i)
    \/ \E i \in JobIdx : FutureResult(i)
    \/ \E i \in JobIdx : HandlerWriteError(i)
    \/ \E i \in JobIdx : HandlerWriteStatus(i)

Spec == Init /\ [][Next]_vars

-----------------------------------------------------------------------------
(* Scheduling: every pool thread and the thread in process_jobs keep running, and
   every collaborator call returns or raises *)

\* the next statement of the worker that runs _process_job for job i
WorkerStep(i) ==
    \/ StartJob(i)
    \/ _prepare_local_file(i)
    \/ DownloadBegin(i)
    \/ DownloadRun(i)
    \/ ExceptWriteError(i)
    \/ ExceptWriteStatus(i)
    \/ ExceptFault(i)
    \/ TranscribeBegin(i)
    \/ LoadCheck(i)
    \/ LoadModel(i)
    \/ TranscribeRun(i)
    \/ TranscribeComplete(i)
    \/ _cleanup_audio_file(i)

\* the next statement of the thread inside process_jobs
LoopStep ==
    \/ \E i \in JobIdx : FutureResult(i) \/ HandlerWriteError(i) \/ HandlerWriteStatus(i)
    \/ ProcessJobsReturn

Positions == {"new", "queued", "finished", "h_error", "h_status", "handled"} \cup MidPipeline

\* when WorkerStep(i) is possible: a pool thread is free for the queued work item,
\* or the worker stands at a statement of _process_job
WorkerCanStep(i) == (pc[i] = "queued" /\ WorkerFree(i)) \/ pc[i] \in MidPipeline

\* WorkerStep(i) as it shows in pc: a step of Next moves job i alone from such a
\* position exactly when it is a WorkerStep(i)
WorkerAdvance(i) ==
    /\ WorkerCanStep(i)
    /\ \E p \in Positions \ {pc[i]} : pc' = [pc EXCEPT ![i] = p]

Fairness ==
    /\ WF_vars(LoopStep)
    /\ \A i \in 1..MaxJobs : WF_pc(i \in JobIdx /\ WorkerAdvance(i))

FairSpec == Spec /\ Fairness

-----------------------------------------------------------------------------
(* get_all_jobs, with a caller that keeps what it returned *)

\* "return self.jobs": the caller receives the dict of the registry itself
get_all_jobs ==
    /\ mainpc = "idle"
    /\ listed' = TRUE
    /\ UNCHANGED <<jobs, pc, exc, files, model, loads, calls, mainpc, batch, cur, ret,
                   max_workers, auto_cleanup, second, export>>

\* what the caller sees through the object it holds: the registry as it is now
Listed == jobs

NextList ==
    \/ Next
    \/ get_all_jobs

SpecList == Init /\ [][NextList]_vars

-----------------------------------------------------------------------------
(* process_jobs called by a second thread while an earlier call is still running.
   The second call has its own executor; its workers are followed up to their
   entry into _process_job, where they run the statements modelled above. *)

\* the second call selects the jobs whose status is "pending" and submits them
process_jobs_second ==
    /\ mainpc = "waiting"
    /\ second = [queued |-> {}, running |-> {}]
    /\ PendingJobs # {}
    /\ second' = [queued |-> PendingJobs, running |-> {}]
    /\ UNCHANGED <<jobs, pc, exc, files, model, loads, calls, mainpc, batch, cur, ret,
                   max_workers, auto_cleanup, listed, export>>

\* a thread of the second executor takes the work item and enters _process_job
StartJobSecond(i) ==
    /\ i \in second.queued
    /\ Cardinality(second.running) < max_workers
    /\ \A k \in second.queued : i <= k
    /\ second' = [queued |-> second.queued \ {i}, running |-> second.running \cup {i}]
    /\ UNCHANGED <<jobs, pc, exc, files, model, loads, calls, mainpc, batch, cur, ret,
                   max_workers, auto_cleanup, listed, export>>

NextReentrant ==
    \/ Next
    \/ process_jobs_second
    \/ \E i \in JobIdx : StartJobSecond(i)

SpecReentrant == Init /\ [][NextReentrant]_vars

-----------------------------------------------------------------------------
(* Exporting a transcript: copy_transcript_to_clipboard and save_transcript,
   called by the caller between two runs *)

Filenames == {"out.txt"}
UnknownId == "job_9_9"
ExportIds == {jobs[i].job_id : i \in JobIdx} \cup {UnknownId}

\* self.jobs.get(job_id): the position of the job in the registry, 0 for None
Lookup(job_id) ==
    IF \E i \in JobIdx : jobs[i].job_id = job_id
    THEN CHOOSE i \in JobIdx : jobs[i].job_id = job_id
    ELSE 0

\* a mutant of HasTranscript: the transcript is compared with None
HasTranscriptNotNone(job_id) ==
    Lookup(job_id) # 0 /\ IsSet(jobs[Lookup(job_id)].transcript)

\* "if job and job.transcript"
HasTranscript(job_id) ==
    Lookup(job_id) # 0 /\ Truthy(jobs[Lookup(job_id)].transcript)

source_label(job) == IF job.is_local_file THEN "File" ELSE "URL"

\* f"Source ({source_label}): {job.source}\n\n{job.transcript}"
clipboard_content(job) ==
    "Source (" \o source_label(job) \o "): " \o job.source \o "\n\n" \o Get(job.transcript)

RECURSIVE Repeat(_, _)
\* s * n
Repeat(s, n) == IF n = 0 THEN "" ELSE s \o Repeat(s, n - 1)

\* the strings save_transcript hands to f.write, in order
save_lines(job) ==
    << "Source (" \o source_label(job) \o "): " \o job.source \o "\n",
       "Job ID: " \o job.job_id \o "\n",
       "Language: "
           \o (IF Truthy(job.language) THEN Get(job.language) ELSE "auto-detected") \o "\n",
       Repeat("=", 50) \o "\n",
       Get(job.transcript) >>

Exported(op, job_id, filename, opened, data, value) ==
    [op |-> op, job_id |-> job_id, filename |-> filename, opened |-> opened, data |-> data,
     value |-> value]

copy_transcript_to_clipboard(job_id) ==
    /\ mainpc = "idle"
    /\ export = NoExport
    /\ IF HasTranscript(job_id)
       THEN \* pyperclip.copy returns
            \/ export' = Exported("copy", job_id, "", FALSE,
                                  <<clipboard_content(jobs[Lookup(job_id)])>>, TRUE)
            \* pyperclip.copy raises: the except clause logs and returns False
            \/ export' = Exported("copy", job_id, "", FALSE, <<>>, FALSE)
       ELSE export' = Exported("copy", job_id, "", FALSE, <<>>, FALSE)
    /\ UNCHANGED <<jobs, pc, exc, files, model, loads, calls, mainpc, batch, cur, ret,
                   max_workers, auto_cleanup, listed, second>>

save_transcript(job_id, filename) ==
    /\ mainpc = "idle"
    /\ export = NoExport
    /\ IF HasTranscript(job_id)
       THEN LET lines == save_lines(jobs[Lookup(job_id)])
            IN \* open raises
               \/ /\ export' = Exported("save", job_id, filename, FALSE, <<>>, FALSE)
                  /\ UNCHANGED files
               \* the file is opened, n lines are written and the next write raises
               \/ \E n \in 0..(Len(lines) - 1) :
                     /\ export' = Exported("save", job_id, filename, TRUE,
                                           SubSeq(lines, 1, n), FALSE)
                     /\ files' = files \cup {filename}
               \* every write returns and the file is closed
               \/ /\ export' = Exported("save", job_id, filename, TRUE, lines, TRUE)
                  /\ files' = files \cup {filename}
       ELSE /\ export' = Exported("save", job_id, filename, FALSE, <<>>, FALSE)
            /\ UNCHANGED files
    /\ UNCHANGED <<jobs, pc, exc, model, loads, calls, mainpc, batch, cur, ret,
                   max_workers, auto_cleanup, listed, second>>

\* the caller has looked at the returned value and goes on
ExportDone ==
    /\ export # NoExport
    /\ export' = NoExport
    /\ UNCHANGED <<jobs, pc, exc, files, model, loads, calls, mainpc, batch, cur, ret,
                   max_workers, auto_cleanup, listed, second>>

NextExport ==
    \/ export = NoExport /\ Next
    \/ \E job_id \in ExportIds : copy_transcript_to_clipboard(job_id)
    \/ \E job_id \in ExportIds, filename \in Filenames : save_transcript(job_id, filename)
    \/ ExportDone

SpecExport == Init /\ [][NextExport]_vars

-----------------------------------------------------------------------------
(* Shorthands of the properties *)

Terminal == {"completed", "failed"}

\* the caller's step is a call of add_job that returned or raised
AddStep == mainpc = "idle" /\ ret'.op = "add_job" /\ (ret' # ret \/ jobs' # jobs)

\* the source has one of the two schemes the tool takes for a remote locator
HasHttpScheme(s) == \E p \in {"http://", "https://"} : Len(s) >= Len(p) /\ SubSeq(s, 1, Len(p)) = p

\* the acquire stage of job i failed: its except clause recorded the message
AcqFailed(i) == jobs[i].error \in {Some("File preparation error"), Some("Download error")}

CallsOf(c, i) == {x \in c : x[1] = i}

-----------------------------------------------------------------------------
\* C1: when process_jobs has returned, every job it selected is completed or failed,
\* whatever the collaborators did; a job that is not terminal while the caller is
\* between calls is a pending job no run has selected, submitted after the last run.
C1_RunLeavesNoPending ==
    mainpc = "idle" =>
        \A i \in JobIdx :
            jobs[i].status \notin Terminal =>
                /\ jobs[i].status = "pending"
                /\ pc[i] = "new"
                /\ ret.op = "add_job"

\* a run of two jobs has returned: one completed, one failed at the dispatch boundary
C1_Witness ==
    /\ mainpc = "idle"
    /\ ret.op = "process_jobs"
    /\ \E i, k \in JobIdx :
          /\ jobs[i].status = "completed"
          /\ jobs[k].status = "failed"
          /\ jobs[k].error = Some("Processing error")

\* C2: at most max_workers jobs are inside _process_job at any time.
C2_ConcurrencyBound == Cardinality(Running) <= max_workers

\* every worker is busy and a job is still waiting in the queue
C2_Witness == Cardinality(Running) = max_workers /\ Queued # {}

\* what C3 asks of one step
C3_Step ==
    /\ \A k \in JobIdx :
          jobs'[k] # jobs[k] =>
             /\ pc'[k] # pc[k]
             /\ \A m \in JobIdx \ {k} : jobs'[m] = jobs[m] /\ pc'[m] = pc[m] /\ exc'[m] = exc[m]
    /\ (mainpc = "waiting" /\ mainpc' = "idle") =>
          \A i \in batch : jobs'[i].status \in Terminal

\* C3: a step that changes a job's fields is a step of that job's own pipeline or of
\* its own future's handler, and it changes no other job; and when process_jobs
\* returns after any failures, every job it dispatched is terminal.
C3_FaultIsolation == [][C3_Step]_vars

\* one job's escaped exception has been recorded while its sibling is still transcribing
C3_Witness ==
    \E i, k \in JobIdx :
        /\ exc[i]
        /\ jobs[i].status = "failed"
        /\ jobs[i].error = Some("Processing error")
        /\ pc[k] = "tr_run"
        /\ jobs[k].error = None

\* C4: a job whose acquire stage failed is never transcribing or completed, the
\* model loader and the transcriber are never called for it, its transcript stays
\* unset and its error is a non-empty string.
C4_AcquireFailureStops ==
    \A i \in JobIdx :
        AcqFailed(i) =>
            /\ jobs[i].status \notin {"transcribing", "completed"}
            /\ <<i, "transcribe">> \notin calls
            /\ <<i, "load_model">> \notin calls
            /\ jobs[i].transcript = None
            /\ Truthy(jobs[i].error)

\* a local job and a remote job have both failed in the acquire stage and are finished
C4_Witness ==
    \E i, k \in JobIdx :
        /\ jobs[i].error = Some("File preparation error")
        /\ jobs[k].error = Some("Download error")
        /\ pc[i] = "handled" /\ pc[k] = "handled"
        /\ jobs[i].status = "failed" /\ jobs[k].status = "failed"

\* what C5 asks of one step
C5_Step ==
    \A i \in JobIdx :
        (/\ pc[i] = "cleanup"
         /\ pc'[i] = "finished"
         /\ jobs[i].is_local_file
         /\ jobs[i].source \in files) => jobs[i].source \in files'

\* C5: the cleanup step of a local-file job leaves the file at job.source in place.
C5_CleanupKeepsLocalSource == [][C5_Step]_vars

\* cleanup is enabled; one video job fell back to its raw source, another had its
\* extracted audio removed, and both sources are still there
C5_Witness ==
    /\ auto_cleanup
    /\ \E i, k \in JobIdx :
          /\ jobs[i].is_local_file /\ jobs[k].is_local_file
          /\ pc[i] \in {"finished", "handled"} /\ pc[k] \in {"finished", "handled"}
          /\ <<i, "extract_audio">> \in calls
          /\ jobs[i].audio_file = Some(jobs[i].source)
          /\ <<k, "remove">> \in calls
          /\ Get(jobs[k].audio_file) \notin files
          /\ jobs[i].source \in files /\ jobs[k].source \in files

\* C6, as claimed: in every state, completed exactly when the transcript is set and
\* the error is unset.
C6_Original ==
    \A i \in JobIdx :
        jobs[i].status = "completed" <=> (IsSet(jobs[i].transcript) /\ ~IsSet(jobs[i].error))

\* C6, amended: completed implies transcript set and error unset in every state; the
\* converse holds except between the transcript write and the status write.
C6_CompletedIffTranscript ==
    \A i \in JobIdx :
        /\ jobs[i].status = "completed" => (IsSet(jobs[i].transcript) /\ ~IsSet(jobs[i].error))
        /\ pc[i] # "tr_done" =>
              ((IsSet(jobs[i].transcript) /\ ~IsSet(jobs[i].error)) => jobs[i].status = "completed")

\* one job is completed with its transcript while another stands between the two writes
C6_Witness ==
    \E i, k \in JobIdx :
        /\ jobs[i].status = "completed" /\ IsSet(jobs[i].transcript)
        /\ pc[k] = "tr_done" /\ jobs[k].status = "transcribing"

\* C7, as claimed: in every state, failed exactly when the error is set and the
\* transcript is unset.
C7_Original ==
    \A i \in JobIdx :
        jobs[i].status = "failed" <=> (IsSet(jobs[i].error) /\ ~IsSet(jobs[i].transcript))

\* C7, amended: failed implies error set and transcript unset in every state; the
\* converse holds except between the error write and the status write of an except
\* clause or of the handler in process_jobs.
C7_FailedIffError ==
    \A i \in JobIdx :
        /\ jobs[i].status = "failed" => (IsSet(jobs[i].error) /\ ~IsSet(jobs[i].transcript))
        /\ pc[i] \notin {"prep_err", "dl_err", "tr_err", "h_status"} =>
              ((IsSet(jobs[i].error) /\ ~IsSet(jobs[i].transcript)) => jobs[i].status = "failed")

\* one job was failed by the handler of process_jobs while another stands between
\* the two writes of an except clause
C7_Witness ==
    \E i, k \in JobIdx :
        /\ jobs[i].status = "failed" /\ jobs[i].error = Some("Processing error")
        /\ pc[k] \in {"prep_err", "dl_err", "tr_err"} /\ jobs[k].status # "failed"

\* what C8 asks of one step
C8_Step ==
    /\ \A i \in JobIdx :
          pc[i] = "handled" =>
             /\ jobs'[i] = jobs[i]
             /\ pc'[i] = "handled"
             /\ CallsOf(calls', i) = CallsOf(calls, i)
    /\ (/\ mainpc = "idle"
        /\ ret'.op = "process_jobs"
        /\ \A i \in JobIdx : jobs[i].status # "pending") =>
          UNCHANGED <<jobs, pc, exc, files, model, loads, calls, mainpc, batch>>
    /\ (mainpc = "idle" /\ mainpc' = "waiting") =>
          /\ batch' = {i \in JobIdx : pc[i] = "new"}
          /\ \A i \in batch' : jobs[i].status = "pending"

\* C8: a job whose future has been handled is never touched again: no field of it
\* changes, it is not dispatched again and no collaborator is called for it; a call
\* of process_jobs with no pending job changes nothing; and a call dispatches exactly
\* the jobs no run has selected before, all of them pending.
C8_OnlyPendingSelected == [][C8_Step]_vars

\* a second run has processed a newly submitted job beside a job of an earlier run
C8_Witness ==
    /\ mainpc = "waiting"
    /\ \E i \in JobIdx \ batch : pc[i] = "handled" /\ jobs[i].status \in Terminal
    /\ \E k \in batch : pc[k] = "handled"

\* what C9 asks of one step
C9_Step ==
    LET src == Get(ret'.arg.source)
        j   == jobs'[Len(jobs')]
    IN (AddStep /\ (src \in files \/ HasHttpScheme(src))) =>
          /\ Len(jobs') = Len(jobs) + 1
          /\ \A k \in JobIdx : jobs'[k] = jobs[k]
          /\ j.source = src
          /\ j.status = "pending"
          /\ j.audio_file = None /\ j.transcript = None /\ j.error = None
          /\ j.is_local_file <=> src \in files
          /\ j.is_local_file => j.audio_format = None
          /\ ret'.value = Some(j.job_id)

C10_Step ==
    LET src == Get(ret'.arg.source)
    IN (AddStep /\ src \notin files /\ ~HasHttpScheme(src)) =>
          /\ ret'.value = Some("ValueError")
          /\ jobs' = jobs
          /\ pc' = pc

\* C10: add_job with a source that is neither an existing file nor has an http(s)
\* scheme raises ValueError and leaves the registry as it was.
C10_InvalidSourceRejected == [][C10_Step]_vars

\* a file that was accepted once is rejected after it has disappeared
C10_Witness ==
    /\ ret.op = "add_job"
    /\ ret.value = Some("ValueError")
    /\ Len(jobs) >= 1
    /\ \E i \in JobIdx : jobs[i].is_local_file /\ ret.arg.source = Some(jobs[i].source)

\* the ids of the jobs in a registry
JobIds(d) == {d[k].job_id : k \in 1..Len(d)}

\* what C11 asks of one step
C11_Step ==
    /\ Len(jobs') >= Len(jobs)
    /\ \A k \in JobIdx : jobs'[k].job_id = jobs[k].job_id /\ jobs'[k].source = jobs[k].source
    /\ (AddStep /\ ret'.value # Some("ValueError")) =>
          /\ Get(ret'.value) \notin JobIds(jobs)
          /\ Len(jobs') = Len(jobs) + 1
          /\ jobs'[Len(jobs')].job_id = Get(ret'.value)
    /\ (AddStep /\ ret'.value = Some("ValueError")) => Len(jobs') = Len(jobs)
    /\ Cardinality(JobIds(jobs')) = Len(jobs')

\* C11: the id add_job returns is the id of no job already in the registry, so a
\* submission overwrites nothing: the registry grows by exactly one job per
\* successful submission, keeps its length on a failed one, never shrinks, keeps
\* every job it has, and its ids stay pairwise distinct.
C11_JobIdsDistinct == [][C11_Step]_vars

\* two jobs were submitted in the same millisecond, the second after a processing
\* run that finished the first and after a rejected submission
C11_Witness ==
    /\ Len(jobs) = 2
    /\ SubSeq(jobs[1].job_id, 1, 6) = SubSeq(jobs[2].job_id, 1, 6)
    /\ jobs[1].job_id # jobs[2].job_id
    /\ jobs[1].status \in Terminal
    /\ jobs[2].status = "pending"
    /\ ret.value = Some("ValueError")

\* the status changes the claim allows, with the status names of the claim
C12_AllowedOriginal ==
    {<<"pending", "resolving">>, <<"resolving", "transcribing">>,
     <<"transcribing", "completed">>, <<"pending", "failed">>,
     <<"resolving", "failed">>, <<"transcribing", "failed">>}

StatusRank(s) ==
    CASE s = "pending"      -> 0
      [] s = "downloading"  -> 1
      [] s = "transcribing" -> 2
      [] s = "completed"    -> 3
      [] OTHER              -> 4

\* the order in which a worker and the handler pass through the statements of a job
PcRank(p) ==
    CASE p = "new"        -> 0
      [] p = "queued"     -> 1
      [] p = "start"      -> 2
      [] p = "dl_run"     -> 3
      [] p \in {"prep_exc", "dl_exc"} -> 4
      [] p \in {"prep_err", "dl_err"} -> 5
      [] p = "tr_begin"   -> 6
      [] p = "tr_load"    -> 7
      [] p = "tr_loading" -> 8
      [] p = "tr_run"     -> 9
      [] p \in {"tr_done", "tr_exc"} -> 10
      [] p = "tr_err"     -> 11
      [] p = "cleanup"    -> 12
      [] p = "finished"   -> 13
      [] p = "h_error"    -> 14
      [] p = "h_status"   -> 15
      [] p = "handled"    -> 16

\* the collaborator a worker is about to invoke at position p
StageCall(p) ==
    CASE p = "dl_run"     -> "download"
      [] p = "tr_loading" -> "load_model"
      [] p = "tr_run"     -> "transcribe"
      [] p = "cleanup"    -> "remove"
      [] p = "start"      -> "extract_audio"
      [] OTHER            -> "none"

\* what the amended C12 asks of one step
C12_Step ==
    \A i \in JobIdx :
        /\ jobs'[i].status # jobs[i].status =>
              /\ jobs[i].status \notin Terminal
              /\ \/ jobs'[i].status = "failed"
                 \/ /\ jobs'[i].status \in {"downloading", "transcribing", "completed"}
                    /\ StatusRank(jobs'[i].status) > StatusRank(jobs[i].status)
              /\ jobs'[i].status = "downloading" => ~jobs[i].is_local_file
              /\ jobs'[i].status = "completed" => jobs[i].status = "transcribing"
        /\ pc'[i] # pc[i] =>
              /\ PcRank(pc'[i]) > PcRank(pc[i])
              /\ <<i, StageCall(pc[i])>> \in calls' => <<i, StageCall(pc[i])>> \notin calls

NoAudioExtracted(i) ==
    LET ext == Lower(Suffix(jobs[i].source))
    IN /\ pc[i] = "start" /\ pc'[i] # "start"
       /\ jobs[i].is_local_file
       /\ jobs[i].source \in files
       /\ ext \notin audio_extensions
       /\ ExtractedPath(jobs[i]) \notin files'

\* C14: when the audio extraction of a local video file fails, and when a local
\* file has an unknown extension, the acquire stage succeeds: the job is not failed,
\* no error is recorded, its audio_file is the raw source path and its next step is
\* the transcribe stage; the transcriber is later invoked on that path.
C14_ExtractionFallback ==
    [][\A i \in JobIdx :
          /\ NoAudioExtracted(i) =>
                /\ jobs'[i].audio_file = Some(jobs[i].source)
                /\ jobs'[i].status # "failed" /\ jobs'[i].error = None
                /\ pc'[i] = "tr_begin"
          /\ (pc[i] = "tr_run" /\ <<i, "transcribe">> \in calls' /\ <<i, "extract_audio">> \in calls
                /\ ExtractedPath(jobs[i]) \notin files) =>
                jobs[i].audio_file = Some(jobs[i].source)]_vars

\* what C15 asks of one step
C15_Step ==
    \A i \in JobIdx :
        /\ IsSet(jobs[i].error) => jobs'[i].error = jobs[i].error
        /\ IsSet(jobs[i].transcript) => jobs'[i].transcript = jobs[i].transcript

\* C15: an error that has been set is never overwritten or cleared by a later
\* step, be it a later stage, cleanup or the handler in process_jobs, and a
\* transcript that has been set is never changed.
C15_FirstFailureWins == [][C15_Step]_vars

\* one job kept the error of its transcribe stage through cleanup and the loop of
\* process_jobs, in a run whose handler recorded the escaped exception of another
C15_Witness ==
    /\ mainpc = "idle"
    /\ \E i, k \in JobIdx :
          /\ jobs[i].error = Some("Transcription error") /\ pc[i] = "handled"
          /\ <<i, "remove">> \in calls
          /\ exc[k] /\ jobs[k].error = Some("Processing error") /\ pc[k] = "handled"

\* C16: the sequence get_all_jobs returned is in insertion order and shows the
\* field updates of the running pipelines, and while the caller holds it, its
\* length and its members do not change, also when add_job is called.
C16_ListIsStableSnapshot ==
    [][(listed /\ listed') =>
          /\ Len(Listed') = Len(Listed)
          /\ JobIds(Listed') = JobIds(Listed)]_vars

\* C17: with threads that keep running and collaborator calls that return or
\* raise, every job process_jobs dispatched eventually is completed or failed and
\* process_jobs eventually returns; it returns only when every job it dispatched
\* is completed or failed.
C17_RunTerminates ==
    /\ \A i \in 1..MaxJobs :
          (i \in JobIdx /\ pc[i] = "queued") ~> (i \in JobIdx /\ jobs[i].status \in Terminal)
    /\ (mainpc = "waiting") ~> (mainpc = "idle")
    /\ [][(mainpc = "waiting" /\ mainpc' = "idle") =>
             \A i \in batch : jobs[i].status \in Terminal]_vars

\* a run of two jobs on one worker thread has returned, the second job having
\* waited in the queue while the first was running
C17_Witness ==
    /\ max_workers = 1
    /\ mainpc = "idle"
    /\ ret.op = "process_jobs"
    /\ Len(jobs) = 2
    /\ \A i \in JobIdx : pc[i] = "handled" /\ jobs[i].status \in Terminal
    /\ <<1, "transcribe">> \in calls /\ <<2, "download">> \in calls

\* the number of times a worker has entered _process_job for job i
Starts(i) ==
    (IF pc[i] \notin {"new", "queued"} THEN 1 ELSE 0)
    + (IF i \in second.running THEN 1 ELSE 0)

\* C18: the pipeline of a job is started at most once, so at most one worker ever
\* runs it and writes its fields, also when process_jobs is called while an
\* earlier call is still running.
C18_OneWorkerPerJob == \A i \in JobIdx : Starts(i) <= 1

\* C19: the model is loaded successfully at most once over all workers, jobs and
\* runs, and self.model is that one instance whenever it is set.
C19_ModelLoadedOnce == loads <= 1 /\ model \in {0, 1}

\* the positions at which the last stage a job runs has ended: a stage returned
\* False, the transcribe stage returned True, or an exception is leaving a stage
StageEnds == {"prep_err", "dl_err", "tr_err", "tr_done", "prep_exc", "dl_exc", "tr_exc"}

\* what C20 asks of one step
C20_Step ==
    /\ \A i \in JobIdx :
          /\ (pc'[i] = "cleanup" /\ pc[i] # "cleanup") => pc[i] \in StageEnds
          /\ (pc'[i] = "finished" /\ pc[i] # "finished") => pc[i] = "cleanup"
          /\ (pc'[i] \in {"h_error", "handled"} /\ pc[i] \notin {"h_error", "h_status", "handled"}) =>
                pc[i] = "finished"
          /\ <<i, "remove">> \in calls' \ calls => pc[i] = "cleanup"
          /\ (pc[i] = "cleanup" /\ pc'[i] # "cleanup") =>
                /\ pc'[i] = "finished"
                /\ jobs' = jobs
                /\ <<i, "remove">> \notin calls
                /\ files' \subseteq files
                /\ (files' # files \/ <<i, "remove">> \in calls') =>
                      /\ auto_cleanup
                      /\ IsSet(jobs[i].audio_file)
                      /\ files \ files' \subseteq {Get(jobs[i].audio_file)}
                      /\ ~(jobs[i].is_local_file /\ jobs[i].audio_file = Some(jobs[i].source))
    /\ (mainpc = "waiting" /\ mainpc' = "idle") => \A i \in batch : pc[i] = "handled"
    /\ (mainpc = "waiting" /\ ~(files \subseteq files')) =>
          /\ auto_cleanup
          /\ \E i \in JobIdx : pc[i] = "cleanup" /\ pc'[i] = "finished"

\* C20: for every dispatched job cleanup runs once, after the end of the last
\* stage the job runs, on the paths of a failed acquire stage, a failed transcribe
\* stage, success and an escaping exception, and before the job's future is
\* handled; it changes no job field; it deletes at most the job's audio_file, at
\* most once, and only if auto_cleanup is set and audio_file is not the job's own
\* local source; with auto_cleanup off no step of a run deletes a file.
C20_CleanupOnceOnEveryPath == [][C20_Step]_vars

\* with auto_cleanup on, a run has ended in which one job failed in its acquire
\* stage and the downloaded audio of a completed remote job was deleted
C20_Witness ==
    /\ auto_cleanup
    /\ mainpc = "idle"
    /\ \E i, k \in JobIdx :
          /\ AcqFailed(i) /\ pc[i] = "handled" /\ <<i, "remove">> \notin calls
          /\ ~jobs[k].is_local_file /\ jobs[k].status = "completed" /\ pc[k] = "handled"
          /\ <<k, "remove">> \in calls
          /\ Get(jobs[k].audio_file) \notin files

\* the files the download or the extraction collaborator created for job i
TempFilesOf(i) ==
    {f \in files : f = ExtractedPath(jobs[i]) \/ StartsWith(f, DownloadBase(jobs[i]) \o ".")}

\* the pipeline of job i has ended, cleanup included
PipelineOver(i) == pc[i] \in {"finished", "h_error", "h_status", "handled"}

\* os.remove was called for job i and did not remove the file
RemoveFailed(i) ==
    /\ <<i, "remove">> \in calls
    /\ IsSet(jobs[i].audio_file)
    /\ Get(jobs[i].audio_file) \in files

\* C21: with auto_cleanup on, once the pipeline of a job has ended, completed or
\* failed, no file that the download or the extraction created for the job is
\* left, unless os.remove itself failed.
C21_NoTempFileLeft ==
    auto_cleanup =>
        \A i \in JobIdx : (PipelineOver(i) /\ ~RemoveFailed(i)) => TempFilesOf(i) = {}

\* the acquire stage of job i is in progress: a local job's worker is inside
\* _prepare_local_file, a remote job's worker is downloading
AcquireInProgress(i) ==
    \/ jobs[i].is_local_file /\ pc[i] = "start"
    \/ pc[i] = "dl_run"

\* C22: while the acquire stage of a job is in progress, the job's status is the
\* status of that stage (resolving, which the code writes as downloading) and not
\* pending, for local and for remote jobs; so a pending job is never one whose
\* worker is already past the start of the acquire stage.
C22_AcquiringIsNotPending ==
    \A i \in JobIdx :
        /\ AcquireInProgress(i) => jobs[i].status \in {"resolving", "downloading"}
        /\ jobs[i].status = "pending" => pc[i] \in {"new", "queued", "start"}

\* what C23 asks of one step
C23_Step ==
    \A i \in JobIdx :
        /\ (pc[i] = "cleanup" /\ pc'[i] # "cleanup" /\ RemoveFailed(i)') =>
              /\ jobs' = jobs
              /\ exc' = exc
              /\ pc'[i] = "finished"
              /\ \A k \in JobIdx \ {i} : pc'[k] = pc[k]
        /\ (RemoveFailed(i) /\ PipelineOver(i) /\ ~PipelineOver(i)') =>
              /\ jobs'[i].status = jobs[i].status
              /\ jobs'[i].error = jobs[i].error
              /\ jobs'[i].transcript = jobs[i].transcript
        /\ (RemoveFailed(i) /\ PipelineOver(i) /\ jobs'[i] # jobs[i]) =>
              /\ exc[i]
              /\ jobs[i].error \in {None, Some("Processing error")}

\* C23: a failing os.remove in cleanup changes no field of any job, raises nothing
\* out of _process_job and leaves the other jobs' workers where they are; after
\* it, the job's fields change only through the handling of an exception that had
\* left a stage before cleanup, never because of the failed removal.
C23_CleanupFailureIsNotFatal == [][C23_Step]_vars

\* after a run in which os.remove failed for both, a completed job is still
\* completed with its transcript and a failed job still has the error of its
\* transcribe stage
C23_Witness ==
    /\ mainpc = "idle"
    /\ \E i, k \in JobIdx :
          /\ RemoveFailed(i) /\ pc[i] = "handled"
          /\ jobs[i].status = "completed" /\ IsSet(jobs[i].transcript) /\ jobs[i].error = None
          /\ RemoveFailed(k) /\ pc[k] = "handled"
          /\ jobs[k].status = "failed" /\ jobs[k].error = Some("Transcription error")

\* the job id names a job of the registry whose transcript is a non-empty string
Exportable(job_id) ==
    \E i \in JobIdx :
        /\ jobs[i].job_id = job_id
        /\ jobs[i].transcript # None
        /\ jobs[i].transcript # Some("")

\* the caller's step is a call of one of the two export operations
ExportStep == export = NoExport /\ export' # NoExport

\* what C24 asks of one step
C24_Step ==
    ExportStep =>
        /\ jobs' = jobs /\ pc' = pc /\ exc' = exc
        /\ ~Exportable(export'.job_id) =>
              /\ export'.value = FALSE
              /\ export'.data = <<>>
              /\ ~export'.opened
              /\ files' = files
        /\ export'.value = TRUE =>
              /\ Exportable(export'.job_id)
              /\ \E i \in JobIdx :
                    /\ jobs[i].job_id = export'.job_id
                    /\ export'.op = "copy" =>
                          /\ Len(export'.data) = 1
                          /\ export'.data[1] = "Source (" \o (IF jobs[i].is_local_file THEN "File" ELSE "URL")
                                                  \o "): " \o jobs[i].source \o "\n\n"
                                                  \o jobs[i].transcript[1]
                    /\ export'.op = "save" =>
                          /\ export'.opened
                          /\ export'.filename \in files'
                          /\ Len(export'.data) = 5
                          /\ export'.data[5] = jobs[i].transcript[1]

\* C24: save_transcript and copy_transcript_to_clipboard write nothing and return
\* False when the job id is unknown or the job's transcript is None or the empty
\* string; they return True only when the clipboard or the file took everything
\* handed to it; and they change neither the registry nor any field of a job.
C24_ExportGuarded == [][C24_Step]_vars

\* save_transcript has returned False, without opening the file, for a job that
\* is 'completed' with the empty string as its transcript
C24_Witness ==
    /\ export.op = "save"
    /\ export.value = FALSE
    /\ ~export.opened
    /\ export.filename \notin files
    /\ \E i \in JobIdx :
          /\ jobs[i].job_id = export.job_id
          /\ jobs[i].status = "completed"
          /\ jobs[i].transcript = Some("")

====
